---- MODULE Spec2Model ----
(***************************************************************************)
(* CopyFilesOverSSH task: file selection, remote path mapping, directory   *)
(* planning and the run() orchestration, in its two variants:              *)
(*   "batched"  src/_generated/CopyFilesOverSSHV0_Node20/copyfilesoverssh.ts*)
(*   "simple"   src/unnamed/part_000                                       *)
(* A string is a sequence of one-character strings, so that substring,     *)
(* startsWith, sort and path operations are computed character by          *)
(* character as the JavaScript code computes them.  The platform is posix  *)
(* (os.platform() is not 'win32'; path is path.posix).                     *)
(***************************************************************************)
EXTENDS Integers, Sequences, FiniteSets, TLC

(***************************************************************************)
(* Strings                                                                 *)
(***************************************************************************)

\* UTF-16 code unit of the characters the model uses (JS compares strings
\* by code unit in Array.prototype.sort).
CharCode(c) ==
    CASE c = " " -> 32 [] c = "!" -> 33 [] c = "*" -> 42 [] c = "." -> 46
      [] c = "/" -> 47 [] c = "0" -> 48 [] c = "1" -> 49 [] c = "2" -> 50
      [] c = "3" -> 51 [] c = "4" -> 52 [] c = "5" -> 53 [] c = "6" -> 54
      [] c = "7" -> 55 [] c = "8" -> 56 [] c = "9" -> 57 [] c = "\\" -> 92
      [] c = "a" -> 97 [] c = "b" -> 98 [] c = "c" -> 99 [] c = "d" -> 100
      [] c = "e" -> 101 [] c = "f" -> 102 [] c = "g" -> 103 [] c = "l" -> 108
      [] c = "s" -> 115 [] c = "t" -> 116 [] c = "x" -> 120 [] c = "~" -> 126
      [] OTHER -> 127

Max(S) == CHOOSE x \in S : \A y \in S : y <= x

Min(S) == CHOOSE x \in S : \A y \in S : x <= y

\* String.prototype.substring(from) with a 0-based index.
Substring(s, from) == SubSeq(s, from + 1, Len(s))

\* String.prototype.startsWith
StartsWith(s, prefix) ==
    /\ Len(prefix) <= Len(s)
    /\ SubSeq(s, 1, Len(prefix)) = prefix

\* a < b in the order Array.prototype.sort uses without a comparator
StrLess(a, b) ==
    LET common == { i \in 1..Min({Len(a), Len(b)}) : a[i] # b[i] }
    IN  IF common = {} THEN Len(a) < Len(b)
        ELSE CharCode(a[Min(common)]) < CharCode(b[Min(common)])

RECURSIVE SortStrings(_)
\* Array.prototype.sort() on strings: stable, ascending by code unit.
SortStrings(list) ==
    IF Len(list) <= 1 THEN list
    ELSE LET rest == SortStrings(Tail(list))
             x == Head(list)
             before == { i \in 1..Len(rest) : StrLess(rest[i], x) }
             k == IF before = {} THEN 0 ELSE Max(before)
         IN  SubSeq(rest, 1, k) \o <<x>> \o SubSeq(rest, k + 1, Len(rest))

RECURSIVE TrimLeft(_)
TrimLeft(s) == IF s # <<>> /\ Head(s) = " " THEN TrimLeft(Tail(s)) ELSE s

RECURSIVE TrimRight(_)
TrimRight(s) ==
    IF s # <<>> /\ s[Len(s)] = " " THEN TrimRight(SubSeq(s, 1, Len(s) - 1)) ELSE s

\* String.prototype.trim (the model's only whitespace is the space)
Trim(s) == TrimRight(TrimLeft(s))

RECURSIVE Split(_, _)
\* String.prototype.split(sep) for a one-character separator
Split(s, sep) ==
    LET at == { i \in 1..Len(s) : s[i] = sep }
    IN  IF at = {} THEN <<s>>
        ELSE <<SubSeq(s, 1, Min(at) - 1)>> \o Split(SubSeq(s, Min(at) + 1, Len(s)), sep)

RECURSIVE JoinWith(_, _)
\* Array.prototype.join(sep)
JoinWith(segs, sep) ==
    IF segs = <<>> THEN <<>>
    ELSE IF Len(segs) = 1 THEN segs[1]
    ELSE segs[1] \o <<sep>> \o JoinWith(Tail(segs), sep)

(***************************************************************************)
(* path (posix)                                                            *)
(***************************************************************************)

RECURSIVE NormalizeSegs(_, _, _)
\* the segment walk of path.posix.normalize: "" and "." are dropped and
\* ".." removes the previous segment (kept when there is none to remove
\* and the path is relative)
NormalizeSegs(segs, acc, isAbs) ==
    IF segs = <<>> THEN acc
    ELSE LET s == Head(segs)
         IN  IF s = <<>> \/ s = <<".">> THEN NormalizeSegs(Tail(segs), acc, isAbs)
             ELSE IF s = <<".", ".">>
                  THEN IF acc # <<>> /\ acc[Len(acc)] # <<".", ".">>
                       THEN NormalizeSegs(Tail(segs), SubSeq(acc, 1, Len(acc) - 1), isAbs)
                       ELSE IF isAbs THEN NormalizeSegs(Tail(segs), acc, isAbs)
                            ELSE NormalizeSegs(Tail(segs), Append(acc, s), isAbs)
                  ELSE NormalizeSegs(Tail(segs), Append(acc, s), isAbs)

\* path.posix.normalize
PathNormalize(p) ==
    IF p = <<>> THEN <<".">>
    ELSE LET isAbs == p[1] = "/"
             trailing == p[Len(p)] = "/"
             body == JoinWith(NormalizeSegs(Split(p, "/"), <<>>, isAbs), "/")
         IN  IF body = <<>>
             THEN (IF isAbs THEN <<"/">>
                   ELSE IF trailing THEN <<".", "/">> ELSE <<".">>)
             ELSE (IF isAbs THEN <<"/">> ELSE <<>>) \o body
                  \o (IF trailing THEN <<"/">> ELSE <<>>)

\* path.join(a, b) / path.posix.join(a, b): empty arguments are skipped
PathJoin(a, b) ==
    IF a = <<>> /\ b = <<>> THEN <<".">>
    ELSE IF a = <<>> THEN PathNormalize(b)
    ELSE IF b = <<>> THEN PathNormalize(a)
    ELSE PathNormalize(a \o <<"/">> \o b)

\* path.isAbsolute
PathIsAbsolute(p) == p # <<>> /\ p[1] = "/"

\* path.dirname: the part before the last separator that is followed by a
\* non-separator character
PathDirname(p) ==
    LET hasRoot == PathIsAbsolute(p)
        nonSlash == { i \in 2..Len(p) : p[i] # "/" }
        slashes == IF nonSlash = {} THEN {}
                   ELSE { i \in 2..Max(nonSlash) : p[i] = "/" }
    IN  IF p = <<>> THEN <<".">>
        ELSE IF slashes = {} THEN (IF hasRoot THEN <<"/">> ELSE <<".">>)
        ELSE IF hasRoot /\ Max(slashes) = 2 THEN <<"/", "/">>
        ELSE SubSeq(p, 1, Max(slashes) - 1)

\* path.basename: the last segment, trailing separators ignored
PathBasename(p) ==
    LET nonSlash == { i \in 1..Len(p) : p[i] # "/" }
        end == IF nonSlash = {} THEN 0 ELSE Max(nonSlash)
        slashes == { i \in 1..end : p[i] = "/" }
        start == IF slashes = {} THEN 1 ELSE Max(slashes) + 1
    IN  SubSeq(p, start, end)

(***************************************************************************)
(* minimatch, as used through minimatch.match(list, pattern,               *)
(* { matchBase: true, dot: true })                                         *)
(***************************************************************************)

RECURSIVE LeadingNegations(_)
\* the number of leading '!' characters of a pattern
LeadingNegations(pattern) ==
    IF pattern # <<>> /\ Head(pattern) = "!" THEN 1 + LeadingNegations(Tail(pattern))
    ELSE 0

RECURSIVE SegMatch(_, _)
\* one path segment against one pattern segment: '*' is any run of
\* characters (dot: true lets it match a leading dot), the rest is literal
SegMatch(pat, seg) ==
    IF pat = <<>> THEN seg = <<>>
    ELSE IF Head(pat) = "*"
         THEN SegMatch(Tail(pat), seg) \/ (seg # <<>> /\ SegMatch(pat, Tail(seg)))
         ELSE seg # <<>> /\ Head(seg) = Head(pat) /\ SegMatch(Tail(pat), Tail(seg))

RECURSIVE MatchOne(_, _)
\* Minimatch.matchOne: segment by segment, "**" spans any number of segments
MatchOne(file, pat) ==
    IF pat = <<>> THEN file = <<>>
    ELSE IF Head(pat) = <<"*", "*">>
         THEN IF Len(pat) = 1 THEN file # <<>>
              ELSE \E k \in 0..Len(file) : MatchOne(SubSeq(file, k + 1, Len(file)), Tail(pat))
         ELSE /\ file # <<>>
              /\ SegMatch(Head(pat), Head(file))
              /\ MatchOne(Tail(file), Tail(pat))

\* Minimatch.match(f): leading '!' are stripped and their parity negates the
\* result; a pattern without a separator is matched against the basename
\* (matchBase)
MiniMatches(f, pattern) ==
    LET k == LeadingNegations(pattern)
        body == Substring(pattern, k)
        patSegs == Split(body, "/")
        fileSegs == IF Len(patSegs) = 1 THEN <<PathBasename(f)>> ELSE Split(f, "/")
        hit == IF body = <<>> THEN f = <<>> ELSE MatchOne(fileSegs, patSegs)
    IN  IF k % 2 = 1 THEN ~hit ELSE hit

\* minimatch.match(list, pattern, options): the elements of list the
\* pattern matches, in list order
MinimatchMatch(list, pattern) == SelectSeq(list, LAMBDA f : MiniMatches(f, pattern))

(***************************************************************************)
(* getFilesToCopy                                                          *)
(***************************************************************************)

\* any leading '!' makes the pattern an exclude pattern
IsExcludePatternAnyNegation(pattern) == LeadingNegations(pattern) > 0

\* line 30: negate is the parity of the leading '!' run
IsExcludePattern(pattern) == LeadingNegations(pattern) % 2 = 1

\* lines 32 and 36: the pattern anchored to the source folder
RealPattern(sourceFolder, pattern) ==
    LET k == LeadingNegations(pattern)
    IN  IF IsExcludePattern(pattern)
        THEN SubSeq(pattern, 1, k) \o PathJoin(sourceFolder, Substring(pattern, k))
        ELSE PathJoin(sourceFolder, pattern)

\* lines 17-39: excludeContents
ExcludeContents(sourceFolder, contents) ==
    LET trimmed == [i \in 1..Len(contents) |-> Trim(contents[i])]
        excl == SelectSeq(trimmed, IsExcludePattern)
    IN  [i \in 1..Len(excl) |-> RealPattern(sourceFolder, excl[i])]

\* the include-all filter is added whenever there is an exclude filter
IncludeContentsAlwaysAll(sourceFolder, contents) ==
    LET trimmed == [i \in 1..Len(contents) |-> Trim(contents[i])]
        incl == SelectSeq(trimmed, LAMBDA x : ~IsExcludePattern(x))
        anchored == [i \in 1..Len(incl) |-> RealPattern(sourceFolder, incl[i])]
    IN  IF Len(ExcludeContents(sourceFolder, contents)) > 0
        THEN Append(anchored, <<"*", "*">>)
        ELSE anchored

\* lines 17-39 and 53-56: includeContents, with the include-all filter
\* added when there are only exclude filters
IncludeContents(sourceFolder, contents) ==
    LET trimmed == [i \in 1..Len(contents) |-> Trim(contents[i])]
        incl == SelectSeq(trimmed, LAMBDA x : ~IsExcludePattern(x))
        anchored == [i \in 1..Len(incl) |-> RealPattern(sourceFolder, incl[i])]
    IN  IF Len(anchored) = 0 /\ Len(ExcludeContents(sourceFolder, contents)) > 0
        THEN <<<<"*", "*">>>>
        ELSE anchored

\* lines 46-51: tl.find's result without the directories
AllFiles(allPaths) ==
    LET kept == SelectSeq(allPaths, LAMBDA e : ~e.isDirectory)
    IN  [i \in 1..Len(kept) |-> kept[i].path]

\* every match is pushed, seen or not
PushAll(files, matches) == files \o matches

RECURSIVE PushUnseen(_, _)
\* lines 77-82: push the matches that pathsSeen does not hold yet
PushUnseen(files, matches) ==
    IF matches = <<>> THEN files
    ELSE IF \E i \in 1..Len(files) : files[i] = Head(matches)
         THEN PushUnseen(files, Tail(matches))
         ELSE PushUnseen(Append(files, Head(matches)), Tail(matches))

RECURSIVE ApplyIncludes(_, _, _)
\* lines 69-83
ApplyIncludes(files, allFiles, includes) ==
    IF includes = <<>> THEN files
    ELSE ApplyIncludes(PushUnseen(files, MinimatchMatch(allFiles, Head(includes))),
                       allFiles, Tail(includes))

\* only the last exclude filter is applied
ApplyLastExclude(files, excludes) ==
    IF excludes = <<>> THEN files
    ELSE MinimatchMatch(files, excludes[Len(excludes)])

RECURSIVE ApplyExcludes(_, _)
\* lines 85-97: files becomes what the (negated) pattern matches in files
ApplyExcludes(files, excludes) ==
    IF excludes = <<>> THEN files
    ELSE ApplyExcludes(MinimatchMatch(files, Head(excludes)), Tail(excludes))

getFilesToCopy(sourceFolder, contents, allPaths) ==
    ApplyExcludes(ApplyIncludes(<<>>, AllFiles(allPaths),
                                IncludeContents(sourceFolder, contents)),
                  ExcludeContents(sourceFolder, contents))

(***************************************************************************)
(* prepareFiles, getUniqueFolders, createRemoteFolders                     *)
(***************************************************************************)

\* utils.unixyPath: every backslash becomes a slash
unixyPath(p) == [i \in 1..Len(p) |-> IF p[i] = "\\" THEN "/" ELSE p[i]]

\* utils.pathIsUNC: \\server\share...
pathIsUNC(p) ==
    LET segs == Split(p, "\\")
    IN  /\ Len(segs) >= 4
        /\ segs[1] = <<>> /\ segs[2] = <<>>
        /\ segs[3] # <<>> /\ segs[4] # <<>>

\* .replace(/^\\/g, "").replace(/^\//g, ""): one leading backslash, then
\* one leading slash, is removed
StripLeadingSeparator(s) ==
    LET a == IF s # <<>> /\ Head(s) = "\\" THEN Tail(s) ELSE s
    IN  IF a # <<>> /\ Head(a) = "/" THEN Tail(a) ELSE a

\* the relative path is never prefixed with "./"
TargetPathNoPrefix(x, sourceFolder, targetFolder, flattenFolders) ==
    LET relative == IF flattenFolders THEN PathBasename(x)
                    ELSE StripLeadingSeparator(Substring(x, Len(sourceFolder)))
    IN  unixyPath(PathJoin(targetFolder, relative))

\* lines 104-115: the remote path of one local file
TargetPath(x, sourceFolder, targetFolder, flattenFolders) ==
    LET relative == IF flattenFolders THEN PathBasename(x)
                    ELSE StripLeadingSeparator(Substring(x, Len(sourceFolder)))
        joined == PathJoin(targetFolder, relative)
        prefixed == IF ~PathIsAbsolute(joined) /\ ~pathIsUNC(joined)
                    THEN <<".", "/">> \o joined ELSE joined
    IN  unixyPath(prefixed)

\* the flatten flag is ignored and the subtree always kept
prepareFilesKeepsTree(filesToCopy, sourceFolder, targetFolder, flattenFolders) ==
    [i \in 1..Len(filesToCopy) |->
        <<filesToCopy[i], TargetPath(filesToCopy[i], sourceFolder, targetFolder, FALSE)>>]

prepareFiles(filesToCopy, sourceFolder, targetFolder, flattenFolders) ==
    [i \in 1..Len(filesToCopy) |->
        <<filesToCopy[i], TargetPath(filesToCopy[i], sourceFolder, targetFolder, flattenFolders)>>]

\* the folder of every file is planned, seen before or not
getUniqueFoldersEveryFile(filesToCopy) ==
    [i \in 1..Len(filesToCopy) |-> PathDirname(filesToCopy[i])]

\* only the folder of the first file is planned
getUniqueFoldersFirstOnly(filesToCopy) ==
    IF filesToCopy = <<>> THEN <<>> ELSE <<PathDirname(filesToCopy[1])>>

RECURSIVE getUniqueFolders(_)
\* a Set keeps insertion order and holds each value once
getUniqueFolders(filesToCopy) ==
    IF filesToCopy = <<>> THEN <<>>
    ELSE LET before == getUniqueFolders(SubSeq(filesToCopy, 1, Len(filesToCopy) - 1))
             folderPath == PathDirname(filesToCopy[Len(filesToCopy)])
         IN  IF \E i \in 1..Len(before) : before[i] = folderPath THEN before
             ELSE Append(before, folderPath)

RECURSIVE uniqueRemotePaths(_)
\* part_000 lines 124-131: the reduce over the (local, remote) pairs
uniqueRemotePaths(paths) ==
    IF paths = <<>> THEN <<>>
    ELSE LET acc == uniqueRemotePaths(SubSeq(paths, 1, Len(paths) - 1))
             directoryPath == PathDirname(paths[Len(paths)][2])
         IN  IF \A i \in 1..Len(acc) : ~StartsWith(acc[i], directoryPath)
             THEN Append(acc, directoryPath)
             ELSE acc

(***************************************************************************)
(* Bounds and inputs                                                       *)
(***************************************************************************)

\* most files under the source folder in Spec
MaxFiles == 3

\* files under the source folder in SpecBatch, more than chunkSize
MaxBatchFiles == 11

\* most upload failures the remote side injects into one run of SpecBatch
MaxUploadFaults == 1

\* most files the target folder holds before the run
MaxRemoteFiles == 1

\* most patterns in the 'contents' input in SpecSelect
MaxPatterns == 3

\* most files under the source folder in SpecPlan
MaxPlanFiles == 4

\* const chunkSize = 10
chunkSize == 10

sourceFolder == <<"/", "s">>

Digit(k) == <<"0", "1", "2", "3", "4", "5", "6", "7", "8", "9">>[(k % 10) + 1]

\* the i-th file of the source tree: /s/a.t, /s/d/a.t, /s/b.l, /s/da/04, ...
LocalFile(i) ==
    CASE i = 1 -> sourceFolder \o <<"/", "a", ".", "t">>
      [] i = 2 -> sourceFolder \o <<"/", "d", "/", "a", ".", "t">>
      [] i = 3 -> sourceFolder \o <<"/", "b", ".", "l">>
      [] OTHER -> sourceFolder \o <<"/", "d", "a", "/", Digit(i \div 10), Digit(i)>>

RECURSIVE FindResult(_)
\* tl.find(sourceFolder) over a tree of n files: the folders and the files,
\* each folder before the files it holds
FindResult(n) ==
    IF n = 0 THEN <<[path |-> sourceFolder, isDirectory |-> TRUE]>>
    ELSE LET before == FindResult(n - 1)
             dir == PathDirname(LocalFile(n))
             file == [path |-> LocalFile(n), isDirectory |-> FALSE]
         IN  IF \E i \in 1..Len(before) : before[i].path = dir
             THEN Append(before, file)
             ELSE before \o <<[path |-> dir, isDirectory |-> TRUE], file>>

Wildcard == <<<<"*", "*">>>>

\* the values of the 'contents' input: the single wildcard, every file,
\* no file, every file but the .l files
ContentsChoices ==
    { Wildcard,
      <<<<"*", "*", "/", "*">>>>,
      <<<<"*", ".", "x">>>>,
      <<<<"*", "*">>, <<"!", "*", "*", "/", "*", ".", "l">>>> }

\* patterns of the 'contents' input in SpecSelect: "**", "**/*.t", "d/*",
\* "!**/*.l", "!d/**", "!!*.l" and " !!!a.t"
PatternChoices ==
    { <<"*", "*">>,
      <<"*", "*", "/", "*", ".", "t">>,
      <<"d", "/", "*">>,
      <<"!", "*", "*", "/", "*", ".", "l">>,
      <<"!", "d", "/", "*", "*">>,
      <<"!", "!", "*", ".", "l">>,
      <<" ", "!", "!", "!", "a", ".", "t">> }

\* the pattern lists of at most MaxPatterns patterns that take the
\* file-by-file path of run()
PatternLists ==
    UNION { [1..n -> PatternChoices] : n \in 1..MaxPatterns } \ {Wildcard}

\* values of the 'targetFolder' input in SpecSelect: "t", "/t", "./t",
\* "t\u", "\t" and "\\h\u"
TargetChoices ==
    { <<"t">>,
      <<"/", "t">>,
      <<".", "/", "t">>,
      <<"t", "\\", "u">>,
      <<"\\", "t">>,
      <<"\\", "\\", "h", "\\", "u">> }

\* the remote file system names a file or folder by its normalized path
RemoteKey(p) ==
    LET n == PathNormalize(p)
    IN  IF Len(n) > 1 /\ n[Len(n)] = "/" THEN SubSeq(n, 1, Len(n) - 1) ELSE n

\* p lies inside folder dir on the remote machine
RemoteUnder(p, dir) ==
    \/ dir = <<".">> /\ ~PathIsAbsolute(p) /\ p # <<".">>
    \/ StartsWith(p, dir \o <<"/">>)

RECURSIVE RemoteAncestors(_)
\* dir and the folders above it
RemoteAncestors(dir) ==
    IF dir = <<".">> \/ dir = <<"/">> \/ PathDirname(dir) = dir THEN {dir}
    ELSE {dir} \cup RemoteAncestors(PathDirname(dir))

(***************************************************************************)
(* State                                                                   *)
(***************************************************************************)

VARIABLES
    input,            \* the task inputs and the source tree, read once
    remoteFiles,      \* files on the remote machine
    remoteDirs,       \* folders on the remote machine
    faultsLeft,       \* upload failures the remote side may still inject
    pc,               \* where run() is
    sshHelper,        \* "undefined" or "constructed"
    thrown,           \* the error on its way to the catch block
    preparedFiles,    \* the (local, remote) pairs
    folderStructure,  \* the folders to create
    folderIdx,        \* position of the folder loop
    chunkIdx,         \* i of the chunk loop
    chunk,            \* indices of the files of the dispatched chunk
    successedFiles,
    task,             \* per file: the state of its promise
    calls,            \* remote operations issued, per kind
    mkdirCalls,       \* folders createRemoteDirectory was called with
    mkdirFailed,      \* folders the remote machine refused to create
    existsCalls,      \* per file: checkRemotePathExists calls
    uploadCalls,      \* per file: uploadFile calls
    chunksDispatched, \* the chunks dispatched so far
    result,           \* tl.setResult calls
    log               \* console.log, tl.warning and tl.error output

vars == <<input, remoteFiles, remoteDirs, faultsLeft, pc, sshHelper, thrown,
          preparedFiles, folderStructure, folderIdx, chunkIdx, chunk,
          successedFiles, task, calls, mkdirCalls, mkdirFailed, existsCalls, uploadCalls,
          chunksDispatched, result, log>>

envVars == <<remoteFiles, remoteDirs, faultsLeft, mkdirFailed>>

fileVars == <<preparedFiles, task, existsCalls, uploadCalls, chunk, chunksDispatched>>

folderVars == <<folderStructure, folderIdx, mkdirCalls>>

NoCalls == [setupConnection |-> 0, checkTarget |-> 0, runCommand |-> 0,
            uploadFolder |-> <<>>, closeConnection |-> 0]

\* every combination of the task inputs over a source tree of at most
\* MaxFiles files
Inputs ==
    [variant : {"batched", "simple"},
     nFiles : 0..MaxFiles,
     contents : ContentsChoices,
     targetFolder : {<<"t">>},
     sourceIsDirectory : BOOLEAN,
     cleanTargetFolder : BOOLEAN,
     overwrite : BOOLEAN,
     failOnEmptySource : BOOLEAN,
     flattenFolders : BOOLEAN]

\* the batched variant copying every file of a source tree of
\* MaxBatchFiles files
BatchInputs ==
    [variant : {"batched"},
     nFiles : {MaxBatchFiles},
     contents : {<<<<"*", "*", "/", "*">>>>},
     targetFolder : {<<"t">>},
     sourceIsDirectory : {TRUE},
     cleanTargetFolder : {FALSE},
     overwrite : BOOLEAN,
     failOnEmptySource : {FALSE},
     flattenFolders : {FALSE}]

\* the simple variant copying every file of a source tree of
\* MaxBatchFiles files
BurstInputs ==
    [variant : {"simple"},
     nFiles : {MaxBatchFiles},
     contents : {<<<<"*", "*", "/", "*">>>>},
     targetFolder : {<<"t">>},
     sourceIsDirectory : {TRUE},
     cleanTargetFolder : {FALSE},
     overwrite : {TRUE},
     failOnEmptySource : {FALSE},
     flattenFolders : {FALSE}]

\* patterns of the 'contents' input in SpecPlan: "da/*", "d/*" and "**/*"
PlanPatternChoices ==
    { <<"d", "a", "/", "*">>,
      <<"d", "/", "*">>,
      <<"*", "*", "/", "*">> }

\* both variants with one or two patterns over a source tree that has the
\* folders d and da
PlanInputs ==
    [variant : {"batched", "simple"},
     nFiles : 0..MaxPlanFiles,
     contents : UNION { [1..n -> PlanPatternChoices] : n \in 1..2 },
     targetFolder : {<<"t">>},
     sourceIsDirectory : {TRUE},
     cleanTargetFolder : {FALSE},
     overwrite : {FALSE},
     failOnEmptySource : {FALSE},
     flattenFolders : BOOLEAN]

\* the remote paths the run may write to
CandidateTargets(in) ==
    { TargetPath(LocalFile(i), sourceFolder, in.targetFolder, in.flattenFolders) :
        i \in 1..in.nFiles }

\* the batched variant with every list of patterns over the default
\* target folder
PatternInputs ==
    [variant : {"batched"},
     nFiles : 0..MaxFiles,
     contents : PatternLists,
     targetFolder : {<<"t">>},
     sourceIsDirectory : {TRUE},
     cleanTargetFolder : {FALSE},
     overwrite : {FALSE},
     failOnEmptySource : {FALSE},
     flattenFolders : {FALSE}]

\* the batched variant copying every file to every target folder, with and
\* without flattening
TargetInputs ==
    [variant : {"batched"},
     nFiles : 0..MaxFiles,
     contents : {<<<<"*", "*", "/", "*">>>>},
     targetFolder : TargetChoices,
     sourceIsDirectory : {TRUE},
     cleanTargetFolder : {FALSE},
     overwrite : {FALSE},
     failOnEmptySource : {FALSE},
     flattenFolders : BOOLEAN]

InitProgram ==
    /\ pc = "start"
    /\ sshHelper = "undefined"
    /\ thrown = <<>>
    /\ preparedFiles = <<>>
    /\ folderStructure = <<>>
    /\ folderIdx = 0
    /\ chunkIdx = 0
    /\ chunk = {}
    /\ successedFiles = 0
    /\ task = <<>>
    /\ calls = NoCalls
    /\ mkdirCalls = <<>>
    /\ mkdirFailed = {}
    /\ existsCalls = <<>>
    /\ uploadCalls = <<>>
    /\ chunksDispatched = <<>>
    /\ result = <<>>
    /\ log = <<>>

\* the remote machine before the run: the home folder exists, the target
\* folder may, and with it some of the files the run would write
InitRemote(maxRemoteFiles) ==
    /\ remoteFiles \in { F \in SUBSET CandidateTargets(input) : Cardinality(F) <= maxRemoteFiles }
    /\ \E targetExists \in BOOLEAN :
         /\ remoteFiles # {} => targetExists
         /\ remoteDirs = {<<".">>}
              \cup (IF targetExists THEN RemoteAncestors(RemoteKey(input.targetFolder)) ELSE {})
              \cup UNION { RemoteAncestors(RemoteKey(PathDirname(f))) : f \in remoteFiles }

Init ==
    /\ input \in Inputs
    /\ InitRemote(MaxRemoteFiles)
    /\ faultsLeft = MaxFiles
    /\ InitProgram

\* a large source tree and an empty target folder
InitBatch ==
    /\ input \in BatchInputs
    /\ InitRemote(0)
    /\ faultsLeft = MaxUploadFaults
    /\ InitProgram

\* a large source tree copied by the simple variant to a remote machine
\* without the target folder
InitBurst ==
    /\ input \in BurstInputs
    /\ remoteFiles = {}
    /\ remoteDirs = {<<".">>}
    /\ faultsLeft = MaxUploadFaults
    /\ InitProgram

\* the selection, the mapping and the folder planning of both variants
\* over an empty remote machine
InitPlan ==
    /\ input \in PlanInputs
    /\ remoteFiles = {}
    /\ remoteDirs = {<<".">>}
    /\ faultsLeft = 0
    /\ InitProgram

\* the selection and the mapping of run() over an empty remote machine
InitSelect ==
    /\ input \in PatternInputs \cup TargetInputs
    /\ remoteFiles = {}
    /\ remoteDirs = {<<".">>}
    /\ faultsLeft = 0
    /\ InitProgram

(***************************************************************************)
(* run()                                                                   *)
(***************************************************************************)

Loc0(key) == [loc |-> key]

Loc1(key, a) == [loc |-> key, arg |-> a]

\* the JavaScript truth value of what getFilesToCopy returns: an array is
\* an object, and every object is truthy, the empty array included
Truthy(array) == TRUE

\* the shortcut is taken for the single pattern "*"
IsWildcardSingleStar(contents) == Len(contents) = 1 /\ contents[1] = <<"*">>

\* contents.length === 1 && contents[0] === "**"
IsWildcard(contents) == Len(contents) = 1 /\ contents[1] = <<"*", "*">>

\* the number of full chunks only
ChunksRoundedDown(n) == n \div chunkSize

\* Math.ceil(preparedFiles.length / chunkSize)
Chunks(n) == (n + chunkSize - 1) \div chunkSize

\* a slice that is one element too long
ChunkSliceOneMore(i, n) == { k \in 1..n : i * chunkSize < k /\ k <= i * chunkSize + chunkSize + 1 }

\* the indices (from 1) of preparedFiles.slice(i * chunkSize, i * chunkSize + chunkSize)
ChunkSlice(i, n) == { k \in 1..n : i * chunkSize < k /\ k <= i * chunkSize + chunkSize }

InFlight(status) == status \in {"checking", "uploading"}

Rejected(status) == status \in {"FileExists", "UploadError"}

Settled(status) == status = "fulfilled" \/ Rejected(status)

\* the remote machine names a file by the path string uploadFile and
\* checkRemotePathExists are given
RemoteOf(i) == preparedFiles[i][2]

\* the upload is issued whatever the overwrite input says
StartedStatusUpload == "uploading"

\* the synchronous start of one file's async callback, lines 266-280:
\* without overwrite the existence check is issued, with it the upload
StartedStatus == IF input.overwrite THEN "uploading" ELSE "checking"

\* the callbacks of the files in the index set S start, in index order
DispatchFiles(S) ==
    /\ task' = [i \in DOMAIN task |-> IF i \in S THEN StartedStatus ELSE task[i]]
    /\ existsCalls' = [i \in DOMAIN existsCalls |->
                         IF i \in S /\ StartedStatus = "checking" THEN existsCalls[i] + 1
                         ELSE existsCalls[i]]
    /\ uploadCalls' = [i \in DOMAIN uploadCalls |->
                         IF i \in S /\ StartedStatus = "uploading" THEN uploadCalls[i] + 1
                         ELSE uploadCalls[i]]
    /\ chunk' = S
    /\ chunksDispatched' = Append(chunksDispatched, S)

RECURSIVE ErrorEntries(_, _)
\* errors.forEach(x => tl.error(x.reason)), in the order of the chunk
ErrorEntries(S, statuses) ==
    IF S = {} THEN <<>>
    ELSE LET i == Min(S)
         IN  (IF Rejected(statuses[i]) THEN <<Loc1(statuses[i], i)>> ELSE <<>>)
             \o ErrorEntries(S \ {i}, statuses)

\* the helper is constructed and connected before the source folder is
\* looked at
StartConnectsFirst ==
    /\ pc = "start"
    /\ sshHelper' = "constructed"
    /\ calls' = [calls EXCEPT !.setupConnection = @ + 1]
    /\ pc' = "setupConnection"
    /\ UNCHANGED <<input, envVars, fileVars, folderVars, chunkIdx, successedFiles, result,
                   log, thrown>>

\* lines 138-206: the inputs are read, the source folder is checked, the
\* helper is constructed and setupConnection is called
Start ==
    /\ pc = "start"
    /\ IF ~input.sourceIsDirectory
       THEN /\ thrown' = Loc0("SourceNotFolder")
            /\ pc' = "catch"
            /\ UNCHANGED <<sshHelper, calls>>
       ELSE /\ sshHelper' = "constructed"
            /\ calls' = [calls EXCEPT !.setupConnection = @ + 1]
            /\ pc' = "setupConnection"
            /\ UNCHANGED thrown
    /\ UNCHANGED <<input, envVars, fileVars, folderVars, chunkIdx, successedFiles, result, log>>

\* line 206 resolves; line 208 calls checkRemotePathExists(targetFolder)
\* when cleanTargetFolder is set
SetupConnectionOk ==
    /\ pc = "setupConnection"
    /\ IF input.cleanTargetFolder
       THEN /\ calls' = [calls EXCEPT !.checkTarget = @ + 1]
            /\ pc' = "checkTarget"
       ELSE /\ pc' = "copy"
            /\ UNCHANGED calls
    /\ UNCHANGED <<input, envVars, sshHelper, thrown, fileVars, folderVars, chunkIdx,
                   successedFiles, result, log>>

\* the rejection is recorded and the run goes on
SetupConnectionFailGoesOn ==
    /\ pc = "setupConnection"
    /\ result' = Append(result, Loc0("ConnectionError"))
    /\ pc' = "copy"
    /\ UNCHANGED <<input, envVars, sshHelper, thrown, calls, fileVars, folderVars, chunkIdx,
                   successedFiles, log>>

\* line 206 rejects
SetupConnectionFail ==
    /\ pc = "setupConnection"
    /\ thrown' = Loc0("ConnectionError")
    /\ pc' = "catch"
    /\ UNCHANGED <<input, envVars, sshHelper, calls, fileVars, folderVars, chunkIdx,
                   successedFiles, result, log>>

\* the clean command is run whether or not the target folder exists
CheckTargetDoneAlways ==
    /\ pc = "checkTarget"
    /\ calls' = [calls EXCEPT !.runCommand = @ + 1]
    /\ pc' = "cleanTarget"
    /\ UNCHANGED <<input, envVars, sshHelper, thrown, fileVars, folderVars, chunkIdx,
                   successedFiles, result, log>>

\* line 208 resolves; lines 209-214 call runCommandOnRemoteMachine when the
\* target folder exists
CheckTargetDone ==
    /\ pc = "checkTarget"
    /\ IF RemoteKey(input.targetFolder) \in remoteDirs
       THEN /\ calls' = [calls EXCEPT !.runCommand = @ + 1]
            /\ pc' = "cleanTarget"
       ELSE /\ pc' = "copy"
            /\ UNCHANGED calls
    /\ UNCHANGED <<input, envVars, sshHelper, thrown, fileVars, folderVars, chunkIdx,
                   successedFiles, result, log>>

\* the clean command empties the target folder
CleanedFiles(files, targetFolder) ==
    { f \in files : ~RemoteUnder(RemoteKey(f), RemoteKey(targetFolder)) }

\* line 214 resolves
CleanTargetOk ==
    /\ pc = "cleanTarget"
    /\ remoteFiles' = CleanedFiles(remoteFiles, input.targetFolder)
    /\ remoteDirs' = CleanedFiles(remoteDirs, input.targetFolder)
    /\ pc' = "copy"
    /\ UNCHANGED <<input, faultsLeft, mkdirFailed, sshHelper, thrown, calls, fileVars,
                   folderVars, chunkIdx, successedFiles, result, log>>

\* line 214 rejects; lines 215-217
CleanTargetFail ==
    /\ pc = "cleanTarget"
    /\ thrown' = Loc0("CleanTargetFolderFailed")
    /\ pc' = "catch"
    /\ UNCHANGED <<input, envVars, sshHelper, calls, fileVars, folderVars, chunkIdx,
                   successedFiles, result, log>>

\* lines 220-224: the single wildcard uploads the whole folder
UploadFolderCall ==
    /\ pc = "copy"
    /\ IsWildcard(input.contents)
    /\ calls' = [calls EXCEPT !.uploadFolder = Append(@, <<sourceFolder, input.targetFolder>>)]
    /\ pc' = "uploadFolder"
    /\ UNCHANGED <<input, envVars, sshHelper, thrown, fileVars, folderVars, chunkIdx,
                   successedFiles, result, log>>

\* line 224 resolves; line 225
UploadFolderOk ==
    /\ pc = "uploadFolder"
    /\ remoteDirs' = remoteDirs \cup RemoteAncestors(RemoteKey(input.targetFolder))
    /\ log' = Append(log, Loc0("CopyDirectoryCompleted"))
    /\ pc' = "finally"
    /\ UNCHANGED <<input, remoteFiles, faultsLeft, mkdirFailed, sshHelper, thrown, calls,
                   fileVars, folderVars, chunkIdx, successedFiles, result>>

\* line 224 rejects; lines 226-228
UploadFolderFail ==
    /\ pc = "uploadFolder"
    /\ thrown' = Loc0("CopyDirectoryFailed")
    /\ pc' = "catch"
    /\ UNCHANGED <<input, envVars, sshHelper, calls, fileVars, folderVars, chunkIdx,
                   successedFiles, result, log>>

\* the else branches of 'if (filesToCopy)', lines 295-299
NothingToCopy ==
    IF input.failOnEmptySource
    THEN /\ thrown' = Loc0("NothingToCopy")
         /\ pc' = "catch"
         /\ UNCHANGED log
    ELSE /\ log' = Append(log, Loc0("warning NothingToCopy"))
         /\ pc' = "finally"
         /\ UNCHANGED thrown

\* lines 230-243 of the batched variant: the files are selected and mapped
\* and the folders are planned
SelectFiles ==
    /\ pc = "copy"
    /\ input.variant = "batched"
    /\ ~IsWildcard(input.contents)
    /\ LET filesToCopy == getFilesToCopy(sourceFolder, input.contents, FindResult(input.nFiles))
           prepared == prepareFiles(filesToCopy, sourceFolder, input.targetFolder,
                                    input.flattenFolders)
       IN  IF Truthy(filesToCopy)
           THEN /\ preparedFiles' = prepared
                /\ task' = [i \in 1..Len(prepared) |-> "pending"]
                /\ existsCalls' = [i \in 1..Len(prepared) |-> 0]
                /\ uploadCalls' = [i \in 1..Len(prepared) |-> 0]
                /\ folderStructure' =
                     getUniqueFolders(SortStrings([i \in 1..Len(prepared) |-> prepared[i][2]]))
                /\ log' = Append(log, Loc1("CopyingFiles", Len(prepared)))
                /\ pc' = "folders"
                /\ UNCHANGED thrown
           ELSE /\ NothingToCopy
                /\ UNCHANGED <<preparedFiles, task, existsCalls, uploadCalls, folderStructure>>
    /\ UNCHANGED <<input, envVars, sshHelper, calls, folderIdx, mkdirCalls, chunkIdx, chunk,
                   chunksDispatched, successedFiles, result>>

\* lines 245-247 and 254: the next folder is requested, or the loop ends
CreateDirectoryCall ==
    /\ pc = "folders"
    /\ IF folderIdx < Len(folderStructure)
       THEN /\ folderIdx' = folderIdx + 1
            /\ mkdirCalls' = Append(mkdirCalls, folderStructure[folderIdx + 1])
            /\ pc' = "createRemoteDirectory"
            /\ UNCHANGED log
       ELSE /\ log' = Append(log, Loc1("FoldersCreated", Len(folderStructure)))
            /\ pc' = "chunks"
            /\ UNCHANGED <<folderIdx, mkdirCalls>>
    /\ UNCHANGED <<input, envVars, sshHelper, thrown, calls, fileVars, folderStructure,
                   chunkIdx, successedFiles, result>>

\* line 247 resolves; line 248
CreateDirectoryOk ==
    /\ pc = "createRemoteDirectory"
    /\ remoteDirs' = remoteDirs \cup RemoteAncestors(RemoteKey(folderStructure[folderIdx]))
    /\ pc' = "folders"
    /\ UNCHANGED <<input, remoteFiles, faultsLeft, mkdirFailed, sshHelper, thrown, calls,
                   fileVars, folderVars, chunkIdx, successedFiles, result, log>>

\* the folder loop goes on after a failed creation
CreateErrorTargetContinue == "folders"

\* line 250: the throw leaves the folder loop for the catch block
CreateErrorTarget == "catch"

\* line 247 rejects; lines 249-251
CreateDirectoryFail ==
    /\ pc = "createRemoteDirectory"
    /\ mkdirFailed' = mkdirFailed \cup {folderStructure[folderIdx]}
    /\ thrown' = Loc1("TargetNotCreated", folderStructure[folderIdx])
    /\ pc' = CreateErrorTarget
    /\ UNCHANGED <<input, remoteFiles, remoteDirs, faultsLeft, sshHelper, calls, fileVars,
                   folderVars, chunkIdx, successedFiles, result, log>>

\* lines 261-281 and 294: the next chunk is dispatched, or the loop ends
DispatchChunk ==
    /\ pc = "chunks"
    /\ IF chunkIdx < Chunks(Len(preparedFiles))
       THEN /\ DispatchFiles(ChunkSlice(chunkIdx, Len(preparedFiles)))
            /\ pc' = "allSettled"
            /\ UNCHANGED log
       ELSE /\ log' = Append(log, Loc1("CopyCompleted", successedFiles))
            /\ pc' = "finally"
            /\ UNCHANGED <<task, existsCalls, uploadCalls, chunk, chunksDispatched>>
    /\ UNCHANGED <<input, envVars, sshHelper, thrown, calls, preparedFiles, folderVars,
                   chunkIdx, successedFiles, result>>

\* lines 273-280: the existence check of file i resolves
ExistsDone(i) ==
    /\ pc = "allSettled"
    /\ task[i] = "checking"
    /\ IF RemoteOf(i) \in remoteFiles
       THEN /\ task' = [task EXCEPT ![i] = "FileExists"]
            /\ UNCHANGED uploadCalls
       ELSE /\ task' = [task EXCEPT ![i] = "uploading"]
            /\ uploadCalls' = [uploadCalls EXCEPT ![i] = @ + 1]
    /\ UNCHANGED <<input, envVars, pc, sshHelper, thrown, calls, preparedFiles, existsCalls,
                   chunk, chunksDispatched, folderVars, chunkIdx, successedFiles, result, log>>

\* line 280: the upload of file i resolves
UploadOk(i) ==
    /\ pc = "allSettled"
    /\ task[i] = "uploading"
    /\ task' = [task EXCEPT ![i] = "fulfilled"]
    /\ remoteFiles' = remoteFiles \cup {RemoteOf(i)}
    /\ UNCHANGED <<input, remoteDirs, faultsLeft, mkdirFailed, pc, sshHelper, thrown, calls,
                   preparedFiles, existsCalls, uploadCalls, chunk, chunksDispatched,
                   folderVars, chunkIdx, successedFiles, result, log>>

\* line 280: the upload of file i rejects
UploadFail(i) ==
    /\ pc = "allSettled"
    /\ task[i] = "uploading"
    /\ faultsLeft > 0
    /\ faultsLeft' = faultsLeft - 1
    /\ task' = [task EXCEPT ![i] = "UploadError"]
    /\ UNCHANGED <<input, remoteFiles, remoteDirs, mkdirFailed, pc, sshHelper, thrown, calls,
                   preparedFiles, existsCalls, uploadCalls, chunk, chunksDispatched,
                   folderVars, chunkIdx, successedFiles, result, log>>

\* Promise.all: the join ends with the first rejection
AllSettledFailFast(S, statuses) ==
    \/ \E i \in S : Rejected(statuses[i])
    \/ \A i \in S : Settled(statuses[i])

\* Promise.allSettled resolves once every promise of the chunk is settled
AllSettled(S, statuses) == \A i \in S : Settled(statuses[i])

\* the chunk counts as failed only from the second error on
ChunkFailedFromTwo(errors) == Cardinality(errors) > 1

\* line 285: errors.length > 0
ChunkFailed(errors) == Cardinality(errors) > 0

\* a failed chunk is dispatched again
JoinChunkRetries ==
    /\ pc = "allSettled"
    /\ input.variant = "batched"
    /\ AllSettled(chunk, task)
    /\ LET errors == { i \in chunk : Rejected(task[i]) }
           fulfilled == { i \in chunk : task[i] = "fulfilled" }
       IN  IF ChunkFailed(errors)
           THEN /\ log' = log \o ErrorEntries(chunk, task)
                /\ pc' = "chunks"
                /\ UNCHANGED <<chunkIdx, successedFiles, result>>
           ELSE /\ successedFiles' = successedFiles + Cardinality(fulfilled)
                /\ chunkIdx' = chunkIdx + 1
                /\ pc' = "chunks"
                /\ UNCHANGED <<log, result>>
    /\ UNCHANGED <<input, envVars, sshHelper, thrown, calls, fileVars, folderVars>>

\* lines 265 and 283-292: the chunk is joined
JoinChunk ==
    /\ pc = "allSettled"
    /\ input.variant = "batched"
    /\ AllSettled(chunk, task)
    /\ LET errors == { i \in chunk : Rejected(task[i]) }
           fulfilled == { i \in chunk : task[i] = "fulfilled" }
       IN  IF ChunkFailed(errors)
           THEN /\ log' = log \o ErrorEntries(chunk, task)
                /\ result' = Append(result, Loc1("NumberFailed", Cardinality(errors)))
                /\ pc' = "finally"
                /\ UNCHANGED <<chunkIdx, successedFiles>>
           ELSE /\ successedFiles' = successedFiles + Cardinality(fulfilled)
                /\ chunkIdx' = chunkIdx + 1
                /\ pc' = "chunks"
                /\ UNCHANGED <<log, result>>
    /\ UNCHANGED <<input, envVars, sshHelper, thrown, calls, fileVars, folderVars>>

\* lines 301-303
Catch ==
    /\ pc = "catch"
    /\ result' = Append(result, thrown)
    /\ pc' = "finally"
    /\ UNCHANGED <<input, envVars, sshHelper, thrown, calls, fileVars, folderVars, chunkIdx,
                   successedFiles, log>>

\* the connection is closed only when no failure was recorded
MustCloseOnSuccess(helper) == helper # "undefined" /\ result = <<>>

\* line 305: if (sshHelper)
MustClose(helper) == helper # "undefined"

\* lines 303-309
Finally ==
    /\ pc = "finally"
    /\ IF MustClose(sshHelper)
       THEN /\ calls' = [calls EXCEPT !.closeConnection = @ + 1]
            /\ pc' = "closeConnection"
       ELSE /\ pc' = "done"
            /\ UNCHANGED calls
    /\ UNCHANGED <<input, envVars, sshHelper, thrown, fileVars, folderVars, chunkIdx,
                   successedFiles, result, log>>

\* line 307 resolves and run() returns
CloseConnectionDone ==
    /\ pc = "closeConnection"
    /\ pc' = "done"
    /\ UNCHANGED <<input, envVars, sshHelper, thrown, calls, fileVars, folderVars, chunkIdx,
                   successedFiles, result, log>>

(***************************************************************************)
(* run() of the simple variant, where it differs                           *)
(***************************************************************************)

\* part_000 lines 133-141: 'this' is undefined in the module-level function,
\* so this.sftpClient throws in every callback before a request is made and
\* the catch block swallows it
RemoteFolderRequests(folders) == <<>>

\* the callbacks of the first chunkSize files only are started
SelectFilesSimpleBatched ==
    /\ pc = "copy"
    /\ input.variant = "simple"
    /\ ~IsWildcard(input.contents)
    /\ LET filesToCopy == getFilesToCopy(sourceFolder, input.contents, FindResult(input.nFiles))
           prepared == prepareFiles(filesToCopy, sourceFolder, input.targetFolder,
                                    input.flattenFolders)
           first == ChunkSlice(0, Len(prepared))
       IN  /\ preparedFiles' = prepared
           /\ folderStructure' = uniqueRemotePaths(prepared)
           /\ mkdirCalls' = RemoteFolderRequests(uniqueRemotePaths(prepared))
           /\ task' = [i \in 1..Len(prepared) |-> IF i \in first THEN StartedStatus ELSE "pending"]
           /\ existsCalls' = [i \in 1..Len(prepared) |->
                                IF i \in first /\ StartedStatus = "checking" THEN 1 ELSE 0]
           /\ uploadCalls' = [i \in 1..Len(prepared) |->
                                IF i \in first /\ StartedStatus = "uploading" THEN 1 ELSE 0]
           /\ chunk' = first
           /\ chunksDispatched' = Append(chunksDispatched, first)
           /\ log' = Append(log, Loc1("CopyingFiles", Len(filesToCopy)))
           /\ pc' = "allSettled"
           /\ UNCHANGED thrown
    /\ UNCHANGED <<input, envVars, sshHelper, calls, folderIdx, chunkIdx, successedFiles, result>>

\* part_000 lines 238-282: createRemoteFolders is called and not awaited,
\* then the callbacks of all files start
SelectFilesSimple ==
    /\ pc = "copy"
    /\ input.variant = "simple"
    /\ ~IsWildcard(input.contents)
    /\ LET filesToCopy == getFilesToCopy(sourceFolder, input.contents, FindResult(input.nFiles))
           prepared == prepareFiles(filesToCopy, sourceFolder, input.targetFolder,
                                    input.flattenFolders)
           all == 1..Len(prepared)
       IN  IF Truthy(filesToCopy)
           THEN /\ preparedFiles' = prepared
                /\ folderStructure' = uniqueRemotePaths(prepared)
                /\ mkdirCalls' = RemoteFolderRequests(uniqueRemotePaths(prepared))
                /\ task' = [i \in all |-> StartedStatus]
                /\ existsCalls' = [i \in all |-> IF StartedStatus = "checking" THEN 1 ELSE 0]
                /\ uploadCalls' = [i \in all |-> IF StartedStatus = "uploading" THEN 1 ELSE 0]
                /\ chunk' = all
                /\ chunksDispatched' = Append(chunksDispatched, all)
                /\ log' = Append(log, Loc1("CopyingFiles", Len(filesToCopy)))
                /\ pc' = "allSettled"
                /\ UNCHANGED thrown
           ELSE /\ NothingToCopy
                /\ UNCHANGED <<fileVars, folderStructure, mkdirCalls>>
    /\ UNCHANGED <<input, envVars, sshHelper, calls, folderIdx, chunkIdx, successedFiles, result>>

\* part_000 lines 249 and 284-292: all files are joined; a failure is
\* recorded and the completion is logged all the same
JoinAll ==
    /\ pc = "allSettled"
    /\ input.variant = "simple"
    /\ AllSettled(chunk, task)
    /\ LET errors == { i \in chunk : Rejected(task[i]) }
           fulfilled == { i \in chunk : task[i] = "fulfilled" }
       IN  /\ result' = IF ChunkFailed(errors)
                        THEN Append(result, Loc1("NumberFailed", Cardinality(errors)))
                        ELSE result
           /\ log' = log \o ErrorEntries(chunk, task)
                         \o <<Loc1("CopyCompleted", Cardinality(fulfilled))>>
           /\ successedFiles' = Cardinality(fulfilled)
    /\ pc' = "finally"
    /\ UNCHANGED <<input, envVars, sshHelper, thrown, calls, fileVars, folderVars, chunkIdx>>

Next ==
    \/ Start
    \/ SetupConnectionOk
    \/ SetupConnectionFail
    \/ CheckTargetDone
    \/ CleanTargetOk
    \/ CleanTargetFail
    \/ UploadFolderCall
    \/ UploadFolderOk
    \/ UploadFolderFail
    \/ SelectFiles
    \/ CreateDirectoryCall
    \/ CreateDirectoryOk
    \/ CreateDirectoryFail
    \/ DispatchChunk
    \/ \E i \in DOMAIN task : ExistsDone(i)
    \/ \E i \in DOMAIN task : UploadOk(i)
    \/ \E i \in DOMAIN task : UploadFail(i)
    \/ JoinChunk
    \/ Catch
    \/ Finally
    \/ CloseConnectionDone
    \/ SelectFilesSimple
    \/ JoinAll

Spec == Init /\ [][Next]_vars

\* the actions of Next that the inputs of InitBatch can enable
NextBatch ==
    \/ Start
    \/ SetupConnectionOk
    \/ SetupConnectionFail
    \/ SelectFiles
    \/ CreateDirectoryCall
    \/ CreateDirectoryOk
    \/ CreateDirectoryFail
    \/ DispatchChunk
    \/ \E i \in DOMAIN task : ExistsDone(i)
    \/ \E i \in DOMAIN task : UploadOk(i)
    \/ \E i \in DOMAIN task : UploadFail(i)
    \/ JoinChunk
    \/ Catch
    \/ Finally
    \/ CloseConnectionDone

SpecBatch == InitBatch /\ [][NextBatch]_vars

\* the actions of Next that the inputs of InitBurst can enable
NextBurst ==
    \/ Start
    \/ SetupConnectionOk
    \/ SetupConnectionFail
    \/ SelectFilesSimple
    \/ \E i \in DOMAIN task : UploadOk(i)
    \/ \E i \in DOMAIN task : UploadFail(i)
    \/ JoinAll
    \/ Catch
    \/ Finally
    \/ CloseConnectionDone

SpecBurst == InitBurst /\ [][NextBurst]_vars

\* run() of both variants up to the planning of the remote folders
NextPlan ==
    \/ Start
    \/ SetupConnectionOk
    \/ SelectFiles
    \/ SelectFilesSimple

SpecPlan == InitPlan /\ [][NextPlan]_vars

\* run() up to the selection and the mapping of the files
NextSelect ==
    \/ Start
    \/ SetupConnectionOk
    \/ SelectFiles

SpecSelect == InitSelect /\ [][NextSelect]_vars

(***************************************************************************)
(* Properties                                                              *)
(***************************************************************************)

FileCount == Len(preparedFiles)

FailedFiles == { i \in 1..FileCount : task[i] \in {"FileExists", "UploadError"} }

FilesInFlight == { i \in 1..FileCount : task[i] \in {"checking", "uploading"} }

\* the batch (from 0) the i-th selected file belongs to
BatchOf(i) == (i - 1) \div chunkSize

ReportsFailure(msg) == result # <<>> /\ result[Len(result)] = msg

\* C1: in the batched variant the k-th dispatched batch is the k-th run of
\* chunkSize consecutive files, at most ceil(n / chunkSize) batches are
\* dispatched and all of them when the run ends without a failure; a file
\* is in flight only while every file of the earlier batches is uploaded;
\* once a file of batch k has failed, the files of the later batches are
\* never existence-checked nor uploaded, and the finished run has recorded
\* exactly NumberFailed with the number of failed files.
C1_BatchesInOrderHaltOnFailure ==
    input.variant = "batched" =>
        LET failed == FailedFiles
            failedBatches == { BatchOf(i) : i \in failed }
            flyingBatches == { BatchOf(i) : i \in FilesInFlight }
        IN  /\ \A k \in 1..Len(chunksDispatched) :
                 chunksDispatched[k] = { i \in 1..FileCount : BatchOf(i) = k - 1 }
            /\ Len(chunksDispatched) * chunkSize < FileCount + chunkSize
            /\ (pc = "done" /\ result = <<>>) => Len(chunksDispatched) * chunkSize >= FileCount
            /\ \A j \in 1..FileCount : \A b \in flyingBatches :
                 BatchOf(j) < b => task[j] = "fulfilled"
            /\ \A j \in 1..FileCount : \A b \in failedBatches :
                 BatchOf(j) > b =>
                    task[j] = "pending" /\ existsCalls[j] = 0 /\ uploadCalls[j] = 0
            /\ (pc = "done" /\ failed # {}) =>
                 result = <<[loc |-> "NumberFailed", arg |-> Cardinality(failed)]>>

\* a finished run of more than chunkSize files in which a file of the first
\* batch failed and the second batch never started
C1_Witness ==
    /\ input.variant = "batched"
    /\ pc = "done"
    /\ FileCount > chunkSize
    /\ \E i \in FailedFiles : BatchOf(i) = 0
    /\ task[chunkSize + 1] = "pending"

\* C3: in the batched variant at most chunkSize file tasks are in flight,
\* whatever the number of selected files, and a file of a later batch has
\* started only when every file of the earlier batches is settled.
C3_InFlightAtMostChunkSize ==
    input.variant = "batched" =>
        /\ Cardinality(FilesInFlight) <= chunkSize
        /\ LET startedBatches == { BatchOf(j) : j \in { k \in 1..FileCount : task[k] # "pending" } }
           IN  \A i \in 1..FileCount : \A b \in startedBatches :
                 BatchOf(i) < b => task[i] \in {"fulfilled", "FileExists", "UploadError"}

\* chunkSize tasks are in flight while more files than that are selected
C3_Witness ==
    /\ input.variant = "batched"
    /\ FileCount > chunkSize
    /\ Cardinality(FilesInFlight) = chunkSize

\* C2: a file that failed never cancels or skips a sibling of its batch:
\* once a batch is joined every file of it is settled, uploaded or failed;
\* while the batch is open each unsettled file can still complete its
\* check and its upload, whatever its siblings did; and a file that is
\* neither found on the remote machine nor failed by its own upload is
\* uploaded exactly once and is on the remote machine.
C2_SiblingsNotCancelled ==
    /\ \A k \in 1..Len(chunksDispatched) :
         (k < Len(chunksDispatched) \/ pc # "allSettled") =>
            \A i \in chunksDispatched[k] :
               task[i] \in {"fulfilled", "FileExists", "UploadError"}
    /\ \A i \in 1..FileCount :
         /\ task[i] = "checking" => ENABLED ExistsDone(i)
         /\ task[i] = "uploading" => ENABLED UploadOk(i)
         /\ task[i] = "fulfilled" => uploadCalls[i] = 1 /\ preparedFiles[i][2] \in remoteFiles

\* a finished run in which one file of a batch failed and a later sibling
\* of the same batch was uploaded
C2_Witness ==
    /\ pc = "done"
    /\ \E k \in 1..Len(chunksDispatched) : \E i, j \in chunksDispatched[k] :
         /\ i < j
         /\ task[i] \in {"FileExists", "UploadError"}
         /\ task[j] = "fulfilled"
         /\ preparedFiles[j][2] \in remoteFiles

C4_CheckBeforeUpload ==
    /\ \A i \in 1..FileCount :
         /\ task[i] = "pending" => existsCalls[i] = 0 /\ uploadCalls[i] = 0
         /\ input.overwrite =>
              /\ existsCalls[i] = 0
              /\ task[i] # "pending" => uploadCalls[i] = 1
              /\ task[i] # "FileExists"
         /\ ~input.overwrite =>
              /\ task[i] # "pending" => existsCalls[i] = 1
              /\ task[i] \in {"checking", "FileExists"} => uploadCalls[i] = 0
              /\ task[i] \in {"uploading", "fulfilled", "UploadError"} => uploadCalls[i] = 1
    /\ (pc = "done" /\ \E i \in 1..FileCount : task[i] = "FileExists") =>
         result = <<[loc |-> "NumberFailed", arg |-> Cardinality(FailedFiles)]>>

C4_CheckResolves ==
    \A i \in 1..FileCount :
       (task[i] = "checking" /\ task'[i] # "checking") =>
          IF preparedFiles[i][2] \in remoteFiles
          THEN task'[i] = "FileExists" /\ uploadCalls'[i] = uploadCalls[i]
          ELSE task'[i] = "uploading" /\ uploadCalls'[i] = uploadCalls[i] + 1

\* C4: without overwrite every started file task has made exactly one
\* existence check and uploadFile is called only after it; when the check
\* resolves, a destination that exists marks the file failed (FileExists)
\* with no call of uploadFile, and one that does not starts the upload; a
\* finished run with such a file has recorded NumberFailed with the number
\* of failed files.  With overwrite no existence check is made and every
\* started file task has called uploadFile once.
C4_ExistsWithoutOverwriteFails == []C4_CheckBeforeUpload /\ [][C4_CheckResolves]_vars

\* a finished run without overwrite in which the only failure is a file
\* whose destination existed
C4_Witness ==
    /\ pc = "done"
    /\ ~input.overwrite
    /\ \E i \in 1..FileCount :
         /\ task[i] = "FileExists"
         /\ FailedFiles = {i}
         /\ uploadCalls[i] = 0
    /\ result = <<[loc |-> "NumberFailed", arg |-> 1]>>

RemoteOperations == <<calls, mkdirCalls, existsCalls, uploadCalls, remoteFiles, remoteDirs>>

C5_ReleasedOnce ==
    /\ calls.closeConnection <= 1
    /\ calls.closeConnection = 1 =>
         /\ pc \in {"closeConnection", "done"}
         /\ FilesInFlight = {}
    /\ pc = "done" => calls.closeConnection = (IF calls.setupConnection > 0 THEN 1 ELSE 0)

C5_NothingAfterRelease == calls.closeConnection >= 1 => UNCHANGED RemoteOperations

\* C5: a run that constructed its session (it called setupConnection)
\* calls closeConnection exactly once before it ends, however it ends, the
\* call is made when no file task is in flight, and after it no remote
\* operation (connection, command, folder upload, mkdir, exists, upload)
\* is issued and the remote machine does not change.
C5_SessionReleasedExactlyOnce == []C5_ReleasedOnce /\ [][C5_NothingAfterRelease]_vars

\* a batched run that returned early after a failed batch and has closed
\* its connection
C5_Witness ==
    /\ pc = "done"
    /\ input.variant = "batched"
    /\ calls.closeConnection = 1
    /\ result # <<>>
    /\ result[1].loc = "NumberFailed"

\* the phase of the run: 0 Idle, 1 DirectoriesPlanned, 2 DirectoriesCreated,
\* 3 Uploading, 4 Completed or Failed
Phase ==
    CASE pc \in {"start", "setupConnection", "checkTarget", "cleanTarget", "copy",
                 "uploadFolder"} -> 0
      [] pc \in {"folders", "createRemoteDirectory"} -> 1
      [] pc = "chunks" /\ chunksDispatched = <<>> -> 2
      [] pc = "allSettled" \/ (pc = "chunks" /\ chunksDispatched # <<>>) -> 3
      [] OTHER -> 4

C6_FoldersBeforeFiles ==
    input.variant = "batched" =>
        /\ Len(mkdirCalls) <= Len(folderStructure)
        /\ \A k \in 1..Len(mkdirCalls) : mkdirCalls[k] = folderStructure[k]
        /\ \A k \in 1..(Len(mkdirCalls) - 1) : RemoteKey(mkdirCalls[k]) \in remoteDirs
        /\ (\E i \in 1..FileCount : existsCalls[i] + uploadCalls[i] > 0) =>
             /\ mkdirCalls = folderStructure
             /\ mkdirFailed = {}
             /\ \A k \in 1..Len(folderStructure) : RemoteKey(folderStructure[k]) \in remoteDirs
             /\ \A i \in 1..FileCount :
                  RemoteKey(PathDirname(preparedFiles[i][2])) \in remoteDirs

C6_PhaseOrder ==
    input.variant = "batched" =>
        /\ Phase' >= Phase
        /\ Phase' <= Phase + 1 \/ Phase' = 4

\* C6: in the batched variant the phase of the run never goes back and
\* moves to the next phase or to the end; the folders are requested one at
\* a time in the order of the plan, each after the one before it was
\* created; and once any file has been existence-checked or uploaded,
\* every planned folder has been requested and created, none has failed,
\* and the parent folder of every selected file exists.
C6_PhasesInOrder == []C6_FoldersBeforeFiles /\ [][C6_PhaseOrder]_vars

\* a finished batched run that planned two folders and uploaded a file
C6_Witness ==
    /\ pc = "done"
    /\ input.variant = "batched"
    /\ Len(folderStructure) >= 2
    /\ mkdirCalls = folderStructure
    /\ \E i \in 1..FileCount : task[i] = "fulfilled"

\* C7: in the batched variant, once the creation of a planned folder has
\* failed, that folder is the last one ever requested, no file is ever
\* existence-checked or uploaded and no batch is dispatched, and the run
\* records the single failure TargetNotCreated naming that folder.
C7_DirectoryFailureIsFatal ==
    (input.variant = "batched" /\ mkdirFailed # {}) =>
        /\ mkdirFailed = {mkdirCalls[Len(mkdirCalls)]}
        /\ pc \in {"catch", "finally", "closeConnection", "done"}
        /\ \A i \in 1..FileCount :
             task[i] = "pending" /\ existsCalls[i] = 0 /\ uploadCalls[i] = 0
        /\ chunksDispatched = <<>>
        /\ pc = "catch" => result = <<>>
        /\ pc # "catch" =>
             result = <<[loc |-> "TargetNotCreated", arg |-> mkdirCalls[Len(mkdirCalls)]]>>

\* a finished batched run whose first of two planned folders failed
C7_Witness ==
    /\ pc = "done"
    /\ input.variant = "batched"
    /\ mkdirFailed # {}
    /\ Len(folderStructure) >= 2
    /\ Len(mkdirCalls) = 1
    /\ FileCount >= 2

\* the patterns are not the single wildcard, the run got as far as the
\* selection, and the selection is empty
EmptySelection ==
    /\ ~(Len(input.contents) = 1 /\ input.contents[1] = <<"*", "*">>)
    /\ getFilesToCopy(sourceFolder, input.contents, FindResult(input.nFiles)) = <<>>
    /\ \A k \in 1..Len(result) :
         result[k].loc \notin {"SourceNotFolder", "ConnectionError", "CleanTargetFolderFailed"}

Logged(key) == \E k \in 1..Len(log) : log[k].loc = key

\* C8: a finished run with an empty selection and failOnEmptySource unset
\* has recorded no failure, has reported zero files copied and has emitted
\* the NothingToCopy warning.
C8_EmptySelectionWarns ==
    (pc = "done" /\ EmptySelection /\ ~input.failOnEmptySource) =>
        /\ result = <<>>
        /\ \E k \in 1..Len(log) : log[k] = [loc |-> "CopyCompleted", arg |-> 0]
        /\ Logged("warning NothingToCopy")

\* C9: a finished run with an empty selection and failOnEmptySource set has
\* recorded the failure NothingToCopy and has not reported a completed
\* copy.
C9_EmptySelectionFails ==
    (pc = "done" /\ EmptySelection /\ input.failOnEmptySource) =>
        /\ result = <<[loc |-> "NothingToCopy"]>>
        /\ ~Logged("CopyCompleted")

\* C10: a run records a failure at most once, a run that recorded a
\* failure never reports a completed copy, and a finished run has either
\* recorded a failure or reported a completed copy.
C10_ExactlyOneVerdict ==
    /\ Len(result) <= 1
    /\ ~(result # <<>> /\ (Logged("CopyCompleted") \/ Logged("CopyDirectoryCompleted")))
    /\ pc = "done" =>
         (result # <<>> \/ Logged("CopyCompleted") \/ Logged("CopyDirectoryCompleted"))

\* C11: a run whose source folder is not a directory constructs no helper,
\* issues no remote operation of any kind and dispatches nothing; it goes
\* from the start to the catch block and ends with the single failure
\* SourceNotFolder.
C11_SourceCheckedBeforeRemote ==
    ~input.sourceIsDirectory =>
        /\ sshHelper = "undefined"
        /\ calls = [setupConnection |-> 0, checkTarget |-> 0, runCommand |-> 0,
                    uploadFolder |-> <<>>, closeConnection |-> 0]
        /\ mkdirCalls = <<>> /\ existsCalls = <<>> /\ uploadCalls = <<>>
        /\ chunksDispatched = <<>>
        /\ pc \in {"start", "catch", "finally", "done"}
        /\ pc \in {"start", "catch"} => result = <<>>
        /\ pc \in {"finally", "done"} => result = <<[loc |-> "SourceNotFolder"]>>

\* a finished run whose source folder was not a directory
C11_Witness ==
    /\ pc = "done"
    /\ ~input.sourceIsDirectory
    /\ result = <<[loc |-> "SourceNotFolder"]>>

\* the connection could not be established in this run
ConnectionFailed ==
    \/ pc = "catch" /\ thrown = [loc |-> "ConnectionError"]
    \/ result # <<>> /\ result[1] = [loc |-> "ConnectionError"]

\* C12: once setupConnection has rejected, the run is in its catch or
\* finally block or has ended, its only recorded failure is
\* ConnectionError, and no target check, clean command, folder upload,
\* mkdir, existence check or file upload has been issued.
C12_ConnectionFailureIsFatal ==
    ConnectionFailed =>
        /\ pc \in {"catch", "finally", "closeConnection", "done"}
        /\ pc = "catch" => result = <<>>
        /\ pc # "catch" => result = <<[loc |-> "ConnectionError"]>>
        /\ calls.checkTarget = 0 /\ calls.runCommand = 0 /\ calls.uploadFolder = <<>>
        /\ mkdirCalls = <<>> /\ existsCalls = <<>> /\ uploadCalls = <<>>
        /\ chunksDispatched = <<>>
        /\ preparedFiles = <<>>

\* a finished run whose connection could not be established, with files
\* to copy and a target folder to clean
C12_Witness ==
    /\ pc = "done"
    /\ result = <<[loc |-> "ConnectionError"]>>
    /\ input.cleanTargetFolder
    /\ input.nFiles > 0

\* C13: with the single pattern "**" the run selects no file, plans and
\* creates no folder, checks and uploads no file; uploadFolder is called at
\* most once, with the source folder and the target folder, and exactly
\* once in a run that got past the connection and the clean step; a
\* finished run whose uploadFolder call did not complete has recorded the
\* failure CopyDirectoryFailed.
C13_WildcardUploadsFolderOnce ==
    (Len(input.contents) = 1 /\ input.contents[1] = <<"*", "*">>) =>
        /\ preparedFiles = <<>> /\ task = <<>> /\ folderStructure = <<>>
        /\ ~Logged("CopyingFiles")
        /\ mkdirCalls = <<>> /\ existsCalls = <<>> /\ uploadCalls = <<>>
        /\ chunksDispatched = <<>>
        /\ Len(calls.uploadFolder) <= 1
        /\ \A k \in 1..Len(calls.uploadFolder) :
             calls.uploadFolder[k] = <<sourceFolder, input.targetFolder>>
        /\ pc = "done" =>
             \/ /\ result # <<>>
                /\ result[1].loc \in {"SourceNotFolder", "ConnectionError",
                                       "CleanTargetFolderFailed"}
                /\ calls.uploadFolder = <<>>
             \/ /\ Len(calls.uploadFolder) = 1
                /\ IF Logged("CopyDirectoryCompleted") THEN result = <<>>
                   ELSE result = <<[loc |-> "CopyDirectoryFailed"]>>

\* a finished run with the single pattern "**" whose uploadFolder call
\* failed
C13_Witness ==
    /\ pc = "done"
    /\ input.contents = <<<<"*", "*">>>>
    /\ Len(calls.uploadFolder) = 1
    /\ result = <<[loc |-> "CopyDirectoryFailed"]>>

\* getFilesToCopy has returned and its result is mapped
Selected == pc = "folders"

\* what getFilesToCopy returned: the local halves of the pairs
SelectedFiles == [i \in 1..Len(preparedFiles) |-> preparedFiles[i][1]]

\* the non-directory files of the source tree, in the order tl.find
\* lists them
Listing == [i \in 1..input.nFiles |-> LocalFile(i)]

\* the patterns as the classification loop sees them
Patterns == [i \in 1..Len(input.contents) |-> Trim(input.contents[i])]

ExcludeIndices == { i \in 1..Len(Patterns) : LeadingNegations(Patterns[i]) % 2 = 1 }

IncludeIndices == (1..Len(Patterns)) \ ExcludeIndices

\* file f is matched by the i-th pattern, an exclude pattern: its leading
\* '!' run aside, the pattern anchored to the source folder matches f
ExcludeHit(f, i) ==
    LET k == LeadingNegations(Patterns[i])
    IN  MiniMatches(f, PathJoin(sourceFolder, Substring(Patterns[i], k)))

\* file f is matched by the i-th pattern, an include pattern
IncludeHit(f, i) == MiniMatches(f, PathJoin(sourceFolder, Patterns[i]))

\* C14: the result of getFilesToCopy is the list the include patterns
\* select with exactly the files removed that some exclude pattern
\* matches, whichever exclude pattern comes first or last: it is no longer
\* than that list, keeps the order of the survivors and holds no file an
\* exclude pattern matches.
C14_ExcludesNarrowCumulatively ==
    Selected =>
        LET included == ApplyIncludes(<<>>, Listing,
                                      IncludeContents(sourceFolder, input.contents))
        IN  /\ SelectedFiles =
                 SelectSeq(included, LAMBDA f : \A i \in ExcludeIndices : ~ExcludeHit(f, i))
            /\ Len(SelectedFiles) <= Len(included)
            /\ \A n \in 1..Len(SelectedFiles) : \A i \in ExcludeIndices :
                 ~ExcludeHit(SelectedFiles[n], i)

\* an include pattern and two exclude patterns that each remove a file
\* the other one keeps, and a file survives both
C14_Witness ==
    /\ Selected
    /\ IncludeIndices # {}
    /\ \E i, j \in ExcludeIndices : \E a, b \in 1..Len(Listing) :
         /\ i < j
         /\ ExcludeHit(Listing[a], i) /\ ~ExcludeHit(Listing[a], j)
         /\ ExcludeHit(Listing[b], j) /\ ~ExcludeHit(Listing[b], i)
         /\ \E m \in IncludeIndices : IncludeHit(Listing[a], m)
         /\ \E m \in IncludeIndices : IncludeHit(Listing[b], m)
    /\ Len(SelectedFiles) >= 1
    /\ Len(SelectedFiles) < Len(Listing)

\* the first include pattern that matches f
FirstPattern(f) == Min({ i \in IncludeIndices : IncludeHit(f, i) })

ListingIndex(f) == CHOOSE i \in 1..Len(Listing) : Listing[i] = f

\* C15: with no exclude pattern the result of getFilesToCopy holds
\* exactly the listed files that some include pattern matches, each once,
\* ordered by the first pattern that matches the file and, under one
\* pattern, by the order of the listing.
C15_IncludesUnionInFirstSeenOrder ==
    (Selected /\ ExcludeIndices = {}) =>
        /\ { SelectedFiles[n] : n \in 1..Len(SelectedFiles) } =
             { Listing[a] : a \in { b \in 1..Len(Listing) :
                                      \E i \in IncludeIndices : IncludeHit(Listing[b], i) } }
        /\ \A m, n \in 1..Len(SelectedFiles) :
             m < n =>
                /\ SelectedFiles[m] # SelectedFiles[n]
                /\ \/ FirstPattern(SelectedFiles[m]) < FirstPattern(SelectedFiles[n])
                   \/ /\ FirstPattern(SelectedFiles[m]) = FirstPattern(SelectedFiles[n])
                      /\ ListingIndex(SelectedFiles[m]) < ListingIndex(SelectedFiles[n])

\* include patterns only, a file two of them match, and a result that is
\* not in the order of the listing
C15_Witness ==
    /\ Selected
    /\ ExcludeIndices = {}
    /\ \E a \in 1..Len(Listing) : \E i, j \in IncludeIndices :
         i < j /\ IncludeHit(Listing[a], i) /\ IncludeHit(Listing[a], j)
    /\ \E m, n \in 1..Len(SelectedFiles) :
         m < n /\ ListingIndex(SelectedFiles[m]) > ListingIndex(SelectedFiles[n])

\* C16: with exclude patterns only the result of getFilesToCopy is the
\* whole listing, in its order, without the files some exclude pattern
\* matches; with an include pattern present every file of the result is
\* matched by an include pattern, so no include-all filter was added.
C16_OnlyExcludesStartFromAll ==
    Selected =>
        /\ IncludeIndices = {} =>
             SelectedFiles =
                SelectSeq(Listing, LAMBDA f : \A i \in ExcludeIndices : ~ExcludeHit(f, i))
        /\ IncludeIndices # {} =>
             \A n \in 1..Len(SelectedFiles) :
                \E i \in IncludeIndices : IncludeHit(SelectedFiles[n], i)

\* two exclude patterns and no include pattern; a file is removed and a
\* file is kept
C16_Witness ==
    /\ Selected
    /\ IncludeIndices = {}
    /\ Cardinality(ExcludeIndices) >= 2
    /\ Len(SelectedFiles) >= 1
    /\ Len(SelectedFiles) < Len(Listing)

\* the number of indices of S up to i
Rank(S, i) == Cardinality({ j \in S : j <= i })

\* C17: a trimmed pattern with an odd number k of leading '!' is the
\* next entry of excludeContents, as its k '!' followed by the source
\* folder joined with the rest; one with an even k (0 included) is the
\* next entry of includeContents, as the source folder joined with the
\* whole pattern; every pattern is in exactly one of the two lists and
\* both keep the order of the input.
C17_NegationParityClassifies ==
    LET excl == ExcludeContents(sourceFolder, input.contents)
        incl == IncludeContents(sourceFolder, input.contents)
    IN  /\ Len(excl) = Cardinality(ExcludeIndices)
        /\ \A i \in ExcludeIndices :
             LET k == LeadingNegations(Patterns[i])
             IN  excl[Rank(ExcludeIndices, i)] =
                    [n \in 1..k |-> "!"] \o PathJoin(sourceFolder, Substring(Patterns[i], k))
        /\ IncludeIndices # {} =>
             /\ Len(incl) = Cardinality(IncludeIndices)
             /\ \A i \in IncludeIndices :
                  incl[Rank(IncludeIndices, i)] = PathJoin(sourceFolder, Patterns[i])

\* the files were selected with a pattern of two leading '!' before one
\* of three and one of none
C17_Witness ==
    /\ Selected
    /\ \E i, j, m \in 1..Len(Patterns) :
         /\ i < j
         /\ LeadingNegations(Patterns[i]) = 2
         /\ LeadingNegations(Patterns[j]) = 3
         /\ LeadingNegations(Patterns[m]) = 0

\* C18: every remote path prepareFiles produced holds no backslash and
\* starts with "./" unless it starts with "/", as an absolute path and a
\* converted UNC-style path ("//host/share...") do.
C18_RemotePathsNormalized ==
    \A i \in 1..Len(preparedFiles) :
       LET remote == preparedFiles[i][2]
       IN  /\ \A n \in 1..Len(remote) : remote[n] # "\\"
           /\ remote # <<>>
           /\ remote[1] # "/" => (Len(remote) >= 2 /\ remote[1] = "." /\ remote[2] = "/")

\* files were mapped under a relative target folder written with a
\* backslash
C18_Witness ==
    /\ Selected
    /\ input.targetFolder = <<"t", "\\", "u">>
    /\ Len(preparedFiles) >= 2
    /\ \A i \in 1..Len(preparedFiles) :
         SubSeq(preparedFiles[i][2], 1, 6) = <<".", "/", "t", "/", "u", "/">>

\* the target folder is a single relative folder name
SimpleTarget ==
    \A n \in 1..Len(input.targetFolder) : input.targetFolder[n] \notin {"/", "\\", "."}

\* the part of local path f the mapping keeps: the name after the last
\* separator when flattening, else what follows the source folder and its
\* separator
KeptPart(f) ==
    IF input.flattenFolders
    THEN LET segs == Split(f, "/") IN segs[Len(segs)]
    ELSE SubSeq(f, Len(sourceFolder) + 2, Len(f))

\* C19: prepareFiles returns one pair per selected file, in the order of
\* the selection and with the local path unchanged; under a target folder
\* that is a single relative name the remote path is "./", the target
\* folder, "/" and the file's path below the source folder, or only its
\* base name when flattening.
C19_MappingKeepsOrFlattensTree ==
    Selected =>
        LET files == getFilesToCopy(sourceFolder, input.contents, FindResult(input.nFiles))
        IN  /\ Len(preparedFiles) = Len(files)
            /\ \A i \in 1..Len(files) :
                 /\ preparedFiles[i][1] = files[i]
                 /\ SimpleTarget =>
                      preparedFiles[i][2] =
                         <<".", "/">> \o input.targetFolder \o <<"/">> \o KeptPart(files[i])

\* a file of a subfolder was mapped into the target folder itself by
\* flattening
C19_Witness ==
    /\ Selected
    /\ input.flattenFolders
    /\ SimpleTarget
    /\ \E i \in 1..Len(preparedFiles) :
         /\ preparedFiles[i][1] = sourceFolder \o <<"/", "d", "/", "a", ".", "t">>
         /\ preparedFiles[i][2] = <<".", "/">> \o input.targetFolder \o <<"/", "a", ".", "t">>

\* C20: no planned folder is a path-prefix ancestor of another planned
\* folder.
C20_NoAncestorAmongPlannedFolders ==
    \A i, j \in 1..Len(folderStructure) :
       LET a == folderStructure[i]
           b == folderStructure[j]
       IN  ~(Len(a) < Len(b) /\ SubSeq(b, 1, Len(a) + 1) = a \o <<"/">>)

\* C21: createRemoteDirectory is never called twice for the same remote
\* folder in one run, however many selected files have it as their parent.
C21_FolderRequestedAtMostOnce ==
    \A i, j \in 1..Len(mkdirCalls) :
       i < j => RemoteKey(mkdirCalls[i]) # RemoteKey(mkdirCalls[j])

\* a finished batched run in which two selected files share a parent
\* folder that was requested
C21_Witness ==
    /\ pc = "done"
    /\ input.variant = "batched"
    /\ \E i, j \in 1..FileCount : \E k \in 1..Len(mkdirCalls) :
         /\ i < j
         /\ PathDirname(preparedFiles[i][2]) = mkdirCalls[k]
         /\ PathDirname(preparedFiles[j][2]) = mkdirCalls[k]

C22_AtMostOneUpload ==
    /\ \A i \in 1..FileCount : uploadCalls[i] <= 1 /\ existsCalls[i] <= 1
    /\ \A k, l \in 1..Len(chunksDispatched) :
         k < l => chunksDispatched[k] \cap chunksDispatched[l] = {}
    /\ FailedFiles # {} => pc \in {"allSettled", "finally", "closeConnection", "done"}

C22_NoDispatchAfterFailure ==
    FailedFiles # {} =>
        /\ chunksDispatched' = chunksDispatched
        /\ existsCalls' = existsCalls
        /\ \A i \in 1..FileCount :
             uploadCalls'[i] # uploadCalls[i] => (task[i] = "checking" /\ uploadCalls[i] = 0)

\* C22: uploadFile and checkRemotePathExists are called at most once per
\* selected file and no file is dispatched in two batches; once a file has
\* failed the run never returns to the batch loop: no batch is dispatched,
\* no existence check is issued, and the only uploads still issued are the
\* first uploads of siblings whose existence check was pending.
C22_NoUploadRetried == []C22_AtMostOneUpload /\ [][C22_NoDispatchAfterFailure]_vars

\* a finished batched run in which an upload failed and was issued once
C22_Witness ==
    /\ pc = "done"
    /\ input.variant = "batched"
    /\ \E i \in 1..FileCount : task[i] = "UploadError" /\ uploadCalls[i] = 1
    /\ Len(chunksDispatched) = 1

\* what the run has recorded as failed directory creations
DirectoryFailures == { k \in 1..Len(result) : result[k].loc = "TargetNotCreated" }

\* the selected files whose upload was issued while their remote parent
\* folder did not exist
UploadsAheadOfFolder ==
    { i \in 1..FileCount :
        /\ uploadCalls[i] > 0
        /\ RemoteKey(PathDirname(RemoteOf(i))) \notin remoteDirs }

\* C23: in the simple variant the run never waits for createRemoteFolders
\* (it is never at the folder loop), all selected files are dispatched in
\* one burst whatever their number, and no failed directory creation is
\* ever recorded as a failure of the run.
C23_SimpleVariantOneUnboundedBurst ==
    input.variant = "simple" =>
        /\ pc \notin {"folders", "createRemoteDirectory", "chunks"}
        /\ Len(chunksDispatched) <= 1
        /\ \A k \in 1..Len(chunksDispatched) : chunksDispatched[k] = 1..FileCount
        /\ pc = "allSettled" => \A i \in 1..FileCount : task[i] # "pending"
        /\ DirectoryFailures = {}
        /\ mkdirFailed = {}

C23_Witness ==
    /\ input.variant = "simple"
    /\ pc = "allSettled"
    /\ Cardinality(FilesInFlight) > chunkSize
    /\ UploadsAheadOfFolder = 1..FileCount

\* no folder creation, folder upload, existence check or file upload has
\* been issued
NothingCopiedYet ==
    /\ calls.uploadFolder = <<>>
    /\ mkdirCalls = <<>> /\ existsCalls = <<>> /\ uploadCalls = <<>>
    /\ chunksDispatched = <<>>

\* the clean command of this run was rejected
CleanFailed ==
    \/ pc = "catch" /\ thrown = [loc |-> "CleanTargetFolderFailed"]
    \/ result # <<>> /\ result[1] = [loc |-> "CleanTargetFolderFailed"]

C24_CleanState ==
    /\ calls.runCommand <= 1
    /\ calls.runCommand = 1 =>
         /\ input.cleanTargetFolder
         /\ calls.setupConnection = 1 /\ calls.checkTarget = 1
         /\ pc # "setupConnection"
    /\ pc = "cleanTarget" => calls.runCommand = 1 /\ NothingCopiedYet
    /\ CleanFailed =>
         /\ calls.runCommand = 1
         /\ pc \in {"catch", "finally", "closeConnection", "done"}
         /\ pc # "catch" => result = <<[loc |-> "CleanTargetFolderFailed"]>>
         /\ NothingCopiedYet
         /\ preparedFiles = <<>>

C24_CleanStep ==
    /\ calls'.runCommand # calls.runCommand =>
         /\ input.cleanTargetFolder
         /\ pc = "checkTarget" /\ pc' = "cleanTarget"
         /\ RemoteKey(input.targetFolder) \in remoteDirs
         /\ NothingCopiedYet
    /\ (pc = "cleanTarget" /\ pc' # "cleanTarget") =>
         \/ pc' = "copy"
         \/ pc' = "catch" /\ thrown' = [loc |-> "CleanTargetFolderFailed"]

\* C24: the clean command is issued at most once, only with
\* cleanTargetFolder set, after the connection is up, while the target
\* folder exists remotely and before any folder creation or upload; once
\* it has been rejected the run only records CleanTargetFolderFailed and
\* ends, with no folder created and no file checked or uploaded.
C24_CleanOnceBeforeCopy == []C24_CleanState /\ [][C24_CleanStep]_vars

\* a finished run with files to copy whose clean command was rejected
C24_Witness ==
    /\ pc = "done"
    /\ calls.runCommand = 1
    /\ result = <<[loc |-> "CleanTargetFolderFailed"]>>
    /\ input.nFiles > 0
    /\ ~(Len(input.contents) = 1 /\ input.contents[1] = <<"*", "*">>)

\* the upload of file i completes in this step
UploadCompletes(i) == task[i] = "uploading" /\ task'[i] = "fulfilled"

\* C25: with overwrite disallowed, no upload completes onto a remote path
\* that exists at that moment, whatever the interleaving of the tasks and
\* also when two selected files are mapped to the same remote path.
C25_NoUploadOntoExistingPath ==
    [][~input.overwrite =>
          \A i \in DOMAIN task : UploadCompletes(i) => RemoteOf(i) \notin remoteFiles]_vars

\* creating the planned folders recursively makes folder dir exist: dir is
\* planned, or a planned folder lies below it
CoveredByPlan(dir) ==
    \E k \in 1..Len(folderStructure) :
       \/ folderStructure[k] = dir
       \/ RemoteUnder(RemoteKey(folderStructure[k]), RemoteKey(dir))

\* C26: the parent folder of every mapped remote path is an entry of the
\* planner's output or a path ancestor of an entry, in both variants.
C26_PlannerCoversEveryParent ==
    \A i \in 1..Len(preparedFiles) : CoveredByPlan(PathDirname(preparedFiles[i][2]))

\* the dispatched batches file i was part of
BatchesOf(i) == { k \in 1..Len(chunksDispatched) : i \in chunksDispatched[k] }

\* C27: when a run of the batched variant that selects files by patterns
\* has ended with no failure recorded, every selected file was uploaded
\* exactly once and is on the remote machine, was part of exactly one
\* batch, and the single CopyCompleted message reports the number of
\* selected files.
C27_CleanRunCopiesEverythingOnce ==
    (/\ pc = "done"
     /\ input.variant = "batched"
     /\ result = <<>>
     /\ ~(Len(input.contents) = 1 /\ input.contents[1] = <<"*", "*">>)) =>
        /\ DOMAIN task = 1..FileCount
        /\ \A i \in 1..FileCount :
             /\ task[i] = "fulfilled"
             /\ uploadCalls[i] = 1
             /\ RemoteOf(i) \in remoteFiles
             /\ Cardinality(BatchesOf(i)) = 1
        /\ successedFiles = FileCount
        /\ Cardinality({ k \in 1..Len(log) : log[k].loc = "CopyCompleted" }) = 1
        /\ \E k \in 1..Len(log) : log[k] = [loc |-> "CopyCompleted", arg |-> FileCount]

\* a run of two batches that ended with no failure
C27_Witness ==
    /\ pc = "done"
    /\ input.variant = "batched"
    /\ result = <<>>
    /\ FileCount > chunkSize
    /\ Len(chunksDispatched) = 2
    /\ successedFiles = FileCount

====
